---- MODULE Spec2Model ----
(***************************************************************************)
(* tororo: a static-file HTTP server (src/src/main.rs).                    *)
(*                                                                         *)
(* Two layers are modelled.                                                *)
(*   - Service::resolve, the path resolver, on strings of characters. The  *)
(*     std::path operations it calls (components, push, pop, join) are     *)
(*     modelled per target platform, because they behave differently       *)
(*     on Unix and on Windows builds of the same source.                   *)
(*   - Service::call, the request handler, as one process per request,     *)
(*     interleaved with other requests, with changes of the filesystem     *)
(*     and with the consumer of the response body.                         *)
(* A string is a sequence of one-character strings.                        *)
(***************************************************************************)
EXTENDS Integers, Sequences, FiniteSets, TLC

VARIABLES
    os,         \* the platform the binary was built for
    args,       \* Args: [bind, document_root], shared by every Service
    uri,        \* resolver run: the request path given to resolve
    resolved,   \* resolver run: the PathBuf returned, or NotYet
    fs,         \* the filesystem under document_root: node -> kind
    fds,        \* the process's open file descriptors
    reqs        \* request slot -> state of the request handled there

vars == <<os, args, uri, resolved, fs, fds, reqs>>

----------------------------------------------------------------------------
(* Bounds of the model. *)

\* longest generated request path, not counting its leading "/"
MaxPathLen == 5
\* request slots: the requests that can be in flight at once
MaxReq == 2
\* length in bytes of the large file
MaxFileLen == 3
\* most bytes one read of the stream returns (the capacity of FramedRead's
\* buffer); the large file is longer than one chunk
ChunkSize == 2

----------------------------------------------------------------------------
(* Strings and std::path.                                                  *)

\* the value of resolved before resolve has returned
NotYet == <<"?">>

Letters == {"a", "b", "c", "d", "e", "p", "r", "s", "t", "v", "w"}

\* std::path::is_separator: "/" everywhere, "\" on Windows as well
IsSep(o, c) == c = "/" \/ (o = "windows" /\ c = "\\")

\* std::path::MAIN_SEPARATOR
MainSep(o) == IF o = "windows" THEN "\\" ELSE "/"

\* Length of the drive prefix ("c:") a Windows path starts with, else 0.
\* UNC and verbatim prefixes need two leading separators and are kept out
\* of the inputs (see NoUncPrefix).
PrefixLen(o, s) ==
    IF o = "windows" /\ Len(s) >= 2 /\ s[1] \in Letters /\ s[2] = ":"
    THEN 2 ELSE 0

HasPrefix(o, s) == PrefixLen(o, s) > 0

\* Path::has_root: a separator right after the prefix
HasRoot(o, s) ==
    LET n == PrefixLen(o, s)
    IN Len(s) > n /\ IsSep(o, s[n + 1])

\* Path::is_absolute
IsAbsolute(o, s) ==
    IF o = "windows" THEN HasPrefix(o, s) /\ HasRoot(o, s) ELSE HasRoot(o, s)

\* The segments of s[from..] between separators, empty ones included.
RECURSIVE SplitFrom(_, _, _, _)
SplitFrom(o, s, i, cur) ==
    IF i > Len(s) THEN <<cur>>
    ELSE IF IsSep(o, s[i]) THEN <<cur>> \o SplitFrom(o, s, i + 1, <<>>)
    ELSE SplitFrom(o, s, i + 1, Append(cur, s[i]))

Comp(kind, name) == [kind |-> kind, name |-> name]

\* Path::components: the prefix, the root, then one component per segment.
\* Empty segments are skipped; "." is skipped except as the first segment of
\* a path with neither prefix nor root; ".." is ParentDir; the rest Normal.
Components(o, s) ==
    LET n     == PrefixLen(o, s)
        root  == HasRoot(o, s)
        start == IF root THEN n + 2 ELSE n + 1
        segs  == SplitFrom(o, s, start, <<>>)
        One(k) ==
            LET g == segs[k]
            IN  IF g = <<>> THEN <<>>
                ELSE IF g = <<".">>
                     THEN IF k = 1 /\ ~root /\ n = 0
                          THEN <<Comp("CurDir", g)>> ELSE <<>>
                ELSE IF g = <<".", ".">> THEN <<Comp("ParentDir", g)>>
                ELSE <<Comp("Normal", g)>>
        RECURSIVE Body(_)
        Body(k) == IF k > Len(segs) THEN <<>> ELSE One(k) \o Body(k + 1)
    IN  (IF n > 0 THEN <<Comp("Prefix", SubSeq(s, 1, n))>> ELSE <<>>)
        \o (IF root THEN <<Comp("RootDir", <<s[n + 1]>>)>> ELSE <<>>)
        \o Body(1)

\* PathBuf::push: an absolute path, or on Windows one with a prefix, replaces
\* self; a rooted path without prefix (Windows) replaces all but the prefix;
\* a relative path is appended, after a separator unless self is empty, ends
\* with one, or is a bare drive prefix.
Push(o, self, path) ==
    LET needSep == /\ self # <<>>
                   /\ ~IsSep(o, self[Len(self)])
                   /\ ~(HasPrefix(o, self) /\ Len(self) = PrefixLen(o, self))
    IN  IF IsAbsolute(o, path) \/ HasPrefix(o, path) THEN path
        ELSE IF HasRoot(o, path)
             THEN SubSeq(self, 1, PrefixLen(o, self)) \o path
        ELSE IF needSep THEN self \o <<MainSep(o)>> \o path
        ELSE self \o path

\* Index of the last character of s[1..n] that is no separator, not below lo.
RECURSIVE TrimSeps(_, _, _, _)
TrimSeps(o, s, n, lo) ==
    IF n > lo /\ IsSep(o, s[n]) THEN TrimSeps(o, s, n - 1, lo) ELSE n

\* Index before the first character of the segment that ends at s[n].
RECURSIVE SegStart(_, _, _, _)
SegStart(o, s, n, lo) ==
    IF n > lo /\ ~IsSep(o, s[n]) THEN SegStart(o, s, n - 1, lo) ELSE n

\* PathBuf::pop: truncate to Path::parent, which exists when the last
\* component is Normal, CurDir or ParentDir; otherwise leave self alone.
Pop(o, self) ==
    LET comps == Components(o, self)
        lo    == PrefixLen(o, self) + (IF HasRoot(o, self) THEN 1 ELSE 0)
        e     == TrimSeps(o, self, Len(self), lo)
        b     == SegStart(o, self, e, lo)
    IN  IF comps = <<>> \/ comps[Len(comps)].kind \in {"Prefix", "RootDir"}
        THEN self
        ELSE SubSeq(self, 1, TrimSeps(o, self, b, lo))

\* Path::join: a clone of self with path pushed
Join(o, self, path) == Push(o, self, path)

\* Service::resolve, lines 78-91: the loop over uri.components()
RECURSIVE Normalize(_, _, _, _)
Normalize(o, comps, k, normalized) ==
    IF k > Len(comps) THEN normalized
    ELSE LET component == comps[k]
         IN  Normalize(o, comps, k + 1,
                 CASE component.kind = "CurDir"    -> normalized
                   [] component.kind = "ParentDir" -> Pop(o, normalized)
                   [] component.kind = "Normal"    -> Push(o, normalized, component.name)
                   [] OTHER                        -> normalized)

\* Service::resolve
resolve(o, document_root, path) ==
    Join(o, document_root, Normalize(o, Components(o, path), 1, <<>>))

----------------------------------------------------------------------------
(* The resolver on its own: one run of Service::resolve per behaviour.     *)

Alphabet == {"/", "\\", ".", ":", "a"}

RECURSIVE StringsUpTo(_)
StringsUpTo(n) ==
    IF n = 0 THEN {<<>>}
    ELSE LET shorter == StringsUpTo(n - 1)
         IN  shorter \cup {Append(t, c) : t \in {x \in shorter : Len(x) = n - 1},
                                          c \in Alphabet}

\* the request paths of the documented examples
ExamplePasswd ==
    <<"/", ".", ".", "/", ".", ".", "/", "e", "t", "c", "/",
      "p", "a", "s", "s", "w", "d">>
ExampleABC == <<"/", "a", "/", "b", "/", ".", ".", "/", "c">>

\* A request path is empty or starts with "/" (origin form).
RequestPaths ==
    {<<>>, ExamplePasswd, ExampleABC}
        \cup {<<"/">> \o t : t \in StringsUpTo(MaxPathLen)}

\* A Windows path that starts with two separators has a UNC or verbatim
\* prefix, which PrefixLen does not model: such inputs are left out.
NoUncPrefix(o, s) ==
    ~(o = "windows" /\ Len(s) >= 2 /\ IsSep(o, s[1]) /\ IsSep(o, s[2]))

SrvWww == <<"/", "s", "r", "v", "/", "w", "w", "w">>

\* Args.document_root, lines 22-24: any path, "." by default
DocumentRoots(o) ==
    IF o = "windows"
    THEN {<<"c", ":", "\\", "w">>, <<".">>}
    ELSE {SrvWww, <<"w", "/">>, <<".">>}

\* Args.bind, lines 18-20
DefaultBind == "[::1]:0"

Platforms == {"unix", "windows"}

----------------------------------------------------------------------------
(* The filesystem, as the handler's calls see it.                          *)

\* the nodes under document_root, by the names that lead there: the root
\* itself and one entry "a" in it
Nodes == {<<>>, << <<"a">> >>}

Bytes(n) == [i \in 1..n |-> i]

Entry(kind, data) == [kind |-> kind, data |-> data]

Missing == Entry("missing", <<>>)
Dir == Entry("dir", <<>>)

\* what "a" can be: absent, a directory, a file the process may not read,
\* an empty file, a file longer than one chunk
FileEntries == {Entry("file", Bytes(0)), Entry("file", Bytes(MaxFileLen))}
Entries == {Missing, Dir, Entry("unreadable", <<>>)} \cup FileEntries

\* the filesystems: document_root is a directory holding "a", or is absent
FileSystems ==
    {[n \in Nodes |-> IF n = <<>> THEN Dir ELSE e] : e \in Entries}
        \cup {[n \in Nodes |-> Missing]}

\* the names that lead from document_root to path
NodeOf(o, document_root, path) ==
    LET base  == Components(o, document_root)
        comps == Components(o, path)
    IN  [i \in 1..(Len(comps) - Len(base)) |-> comps[Len(base) + i].name]

\* Path::is_dir, line 111
IsDir(entry) == entry.kind = "dir"

\* File::open(path).await, line 115: what the open of an entry can return.
\* "file" and "dir" are handles; the rest are errors. A directory opens
\* read-only on Unix (and its reads fail), and does not open on Windows;
\* any open can fail for lack of resources.
OpenOutcomes(o, entry) ==
    CASE entry.kind = "file"       -> {"file", "ioerr"}
      [] entry.kind = "dir"        -> IF o = "unix" THEN {"dir", "ioerr"}
                                      ELSE {"denied", "ioerr"}
      [] entry.kind = "unreadable" -> {"denied"}
      [] OTHER                     -> {"missing"}

OpenErrors == {"missing", "denied", "ioerr"}

----------------------------------------------------------------------------
(* The request handler: Server::call and Service::call.                    *)

Slots == 1..MaxReq

Methods == {"GET", "POST", "HEAD"}

\* request paths of the handler runs: the root, a name, a path that
\* normalises to the empty accumulator
Targets == {<<"/">>, <<"/", "a">>, <<"/", "a", "/", ".", ".">>}

\* StatusCode::OK (Response::builder's default), FORBIDDEN, NOT_FOUND,
\* METHOD_NOT_ALLOWED
Ok200 == 200
Forbidden == 403
NotFound == 404
MethodNotAllowed == 405

\* A slot with no request in it. Of a request the state keeps: where its
\* future is (pc); the method; the resolved path, until it is moved into
\* File::open; the response's status and how many responses were produced;
\* what is_dir found (checked: "dir" or "other"); what the open returned and
\* how many opens were made; the descriptor its stream owns; the bytes of
\* the opened file and how many of them the stream has read (pos); the bytes
\* delivered to the consumer (body); the stream's state.
Idle ==
    [pc |-> "idle", method |-> "", path |-> <<>>, status |-> 0, nresp |-> 0,
     checked |-> "none", opened |-> "none", opens |-> 0, fd |-> 0,
     data |-> <<>>, pos |-> 0, body |-> <<>>, stream |-> "none"]

\* Response::builder().status(code).body(Body::empty()): the future resolves
Respond(q, code) ==
    [q EXCEPT !.pc = "done", !.status = code, !.nresp = q.nresp + 1]

\* a variant of line 107 that lets HEAD through as well
MethodAllowedOrHead(method) == method \in {"GET", "HEAD"}

\* line 107
MethodAllowed(method) == method = "GET"

\* a variant of lines 111-114 that does not refuse a directory but goes on
\* to open it (the index fallback without its re-check)
PollStepIndexFallback(q, entry) ==
    IF q.method # "GET" THEN Respond(q, MethodNotAllowed)
    ELSE [q EXCEPT !.pc = "opening",
                   !.checked = IF entry.kind = "dir" THEN "dir" ELSE "other"]

\* a variant of lines 106-110 that counts an open before the method check
PollStepOpensFirst(q, entry) ==
    IF q.method # "GET"
    THEN Respond([q EXCEPT !.opens = q.opens + 1], MethodNotAllowed)
    ELSE IF entry.kind = "dir"
         THEN Respond([q EXCEPT !.checked = "dir"], Forbidden)
    ELSE [q EXCEPT !.pc = "opening", !.checked = "other"]

\* Service::call, lines 106-114: the future's first poll, up to the await of
\* File::open. entry is what path.is_dir() looks at.
PollStep(q, entry) ==
    IF ~MethodAllowed(q.method) THEN Respond(q, MethodNotAllowed)
    ELSE IF IsDir(entry) THEN Respond([q EXCEPT !.checked = "dir"], Forbidden)
    ELSE [q EXCEPT !.pc = "opening", !.checked = "other"]

\* a variant of lines 118-122 that answers 403 when permission is denied
OpenFailedLeaksDenied(q, cause) ==
    Respond([q EXCEPT !.path = <<>>, !.opened = cause, !.opens = q.opens + 1],
            IF cause = "denied" THEN Forbidden ELSE NotFound)

\* a variant of lines 118-122 that answers 500 to an I/O error
OpenFailedServerError(q, cause) ==
    Respond([q EXCEPT !.path = <<>>, !.opened = cause, !.opens = q.opens + 1],
            IF cause = "ioerr" THEN 500 ELSE NotFound)

\* lines 118-122: the open failed
OpenFailed(q, cause) ==
    Respond([q EXCEPT !.path = <<>>, !.opened = cause, !.opens = q.opens + 1],
            NotFound)

\* lines 115-117: the open returned a file; the response carries the stream
\* FramedRead::new(file, BytesCodec::new()), which has read nothing yet
OpenSucceeded(q, outcome, entry, fd) ==
    [q EXCEPT !.pc = "streaming", !.status = Ok200, !.nresp = q.nresp + 1,
              !.path = <<>>, !.opened = outcome, !.opens = q.opens + 1,
              !.fd = fd, !.data = entry.data, !.stream = "live"]

\* the descriptor a new open gets: the lowest one not in use
NewFd(used) == CHOOSE d \in 1..(MaxReq + 1) :
                   d \notin used /\ \A e \in 1..(d - 1) : e \in used

Min(a, b) == IF a < b THEN a ELSE b

\* a variant of the read that does not advance in the file
NextChunkFromStart(data, pos, n) == SubSeq(data, 1, n)

\* the bytes of one read of n bytes at offset pos
NextChunk(data, pos, n) == SubSeq(data, pos + 1, pos + n)

\* line 117: the stream is polled, reads n bytes and yields them as a chunk
Chunk(q, n) ==
    [q EXCEPT !.body = q.body \o NextChunk(q.data, q.pos, n),
              !.pos = q.pos + n]

\* line 117: the stream is polled and ends (how: "eof" or "error"); the
\* body is dropped, and the File in it
EndOfStream(q, how) ==
    [q EXCEPT !.pc = "done", !.stream = how, !.fd = 0]

\* The connection went away: the future, or the response and its body, are
\* dropped. Of the request only the status it had answered remains.
Dropped(q) ==
    [Idle EXCEPT !.pc = "dropped", !.status = q.status, !.nresp = q.nresp,
                 !.opens = q.opens,
                 !.stream = IF q.stream = "live" THEN "cancelled" ELSE q.stream]

\* a variant of the drop that leaves the descriptor open
ReleaseNothing(used, q) == used

\* the descriptors open once q's File is dropped
Release(used, q) == used \ {q.fd}

\* a variant of the read error that ends every stream in flight
ReadErrorAbortsAll(rs, r) ==
    [x \in DOMAIN rs |-> IF rs[x].pc = "streaming"
                         THEN EndOfStream(rs[x], "error") ELSE rs[x]]

\* line 117: a read of request r failed: its stream ends, the other
\* requests are untouched
ReadError(rs, r) == [rs EXCEPT ![r] = EndOfStream(rs[r], "error")]

----------------------------------------------------------------------------
(* Specification of the resolver runs.                                     *)

InitResolve ==
    /\ os \in Platforms
    /\ args \in {[bind |-> DefaultBind, document_root |-> d] :
                    d \in DocumentRoots(os)}
    /\ uri \in {u \in RequestPaths : NoUncPrefix(os, u)}
    /\ resolved = NotYet
    /\ fs = [n \in Nodes |-> Missing]
    /\ fds = {}
    /\ reqs = [r \in Slots |-> Idle]

\* Service::resolve, lines 77-92
Resolve ==
    /\ resolved = NotYet
    /\ resolved' = resolve(os, args.document_root, uri)
    /\ UNCHANGED <<os, args, uri, fs, fds, reqs>>

NextResolve == Resolve

SpecResolve == InitResolve /\ [][NextResolve]_vars

\* the document root of the server runs
HandlerRoot(o) == IF o = "windows" THEN <<"c", ":", "\\", "w">> ELSE SrvWww

\* resolve on the server runs' roots and targets, evaluated once
ResolvedTargets ==
    [o \in Platforms |-> [t \in Targets |-> resolve(o, HandlerRoot(o), t)]]

\* NodeOf on the resolved targets, evaluated once
TargetNodes ==
    [o \in Platforms |->
        [p \in {ResolvedTargets[o][t] : t \in Targets} |->
            NodeOf(o, HandlerRoot(o), p)]]

\* what the filesystem f holds at a resolved target
Find(f, o, path) == f[TargetNodes[o][path]]

----------------------------------------------------------------------------
(* Specification of the server: requests in flight, the filesystem         *)
(* changing under them, the consumers of the bodies.                       *)

Init ==
    /\ os \in Platforms
    /\ args = [bind |-> DefaultBind,
               document_root |-> HandlerRoot(os)]
    /\ uri = <<>>
    /\ resolved = NotYet
    /\ fs \in FileSystems
    /\ fds = {}
    /\ reqs = [r \in Slots |-> Idle]

\* Server::call, lines 62-65, made the connection's Service; a request
\* arrives and Service::call, lines 104-114 and 125, resolves its path and
\* returns the future, which the connection polls at once: it answers 405
\* or 403, or starts File::open and waits. The request takes the lowest free
\* slot.
Call(r) ==
    /\ reqs[r].pc = "idle"
    /\ \A q \in 1..(r - 1) : reqs[q].pc # "idle"
    /\ \E method \in Methods, target \in Targets :
          LET path == ResolvedTargets[os][target]
              req  == [Idle EXCEPT !.pc = "called", !.method = method,
                                   !.path = path]
          IN  reqs' = [reqs EXCEPT ![r] =
                          PollStep(req, Find(fs, os, path))]
    /\ UNCHANGED <<os, args, uri, resolved, fs, fds>>

\* Service::call, lines 115-122: File::open completes
Open(r) ==
    /\ reqs[r].pc = "opening"
    /\ LET entry == Find(fs, os, reqs[r].path)
       IN  \E outcome \in OpenOutcomes(os, entry) :
              IF outcome \in OpenErrors
              THEN /\ reqs' = [reqs EXCEPT ![r] = OpenFailed(reqs[r], outcome)]
                   /\ fds' = fds
              ELSE /\ reqs' = [reqs EXCEPT ![r] =
                                  OpenSucceeded(reqs[r], outcome, entry, NewFd(fds))]
                   /\ fds' = fds \cup {NewFd(fds)}
    /\ UNCHANGED <<os, args, uri, resolved, fs>>

\* line 117: the consumer of the body polls the stream, which reads the
\* file once: some bytes, or none at the end of the file
Pull(r) ==
    /\ reqs[r].pc = "streaming"
    /\ reqs[r].opened = "file"
    /\ LET q    == reqs[r]
           left == Len(q.data) - q.pos
       IN  IF left = 0
           THEN /\ reqs' = [reqs EXCEPT ![r] = EndOfStream(q, "eof")]
                /\ fds' = Release(fds, q)
           ELSE /\ \E n \in 1..Min(ChunkSize, left) :
                      reqs' = [reqs EXCEPT ![r] = Chunk(q, n)]
                /\ fds' = fds
    /\ UNCHANGED <<os, args, uri, resolved, fs>>

\* line 117: the consumer polls the stream and the read fails (always, when
\* the handle is a directory's)
PullError(r) ==
    /\ reqs[r].pc = "streaming"
    /\ reqs' = ReadError(reqs, r)
    /\ fds' = Release(fds, reqs[r])
    /\ UNCHANGED <<os, args, uri, resolved, fs>>

\* the client disconnects or the server shuts down
Cancel(r) ==
    /\ reqs[r].pc \in {"opening", "streaming"}
    /\ reqs' = [reqs EXCEPT ![r] = Dropped(reqs[r])]
    /\ fds' = Release(fds, reqs[r])
    /\ UNCHANGED <<os, args, uri, resolved, fs>>

\* the request is over and forgotten; its slot is free again
Retire(r) ==
    /\ reqs[r].pc \in {"done", "dropped"}
    /\ reqs' = [reqs EXCEPT ![r] = Idle]
    /\ UNCHANGED <<os, args, uri, resolved, fs, fds>>

\* another process changes the filesystem: "a" is replaced, or the document
\* root is removed with what it holds, or created empty
FsChange ==
    /\ \E f \in FileSystems :
          /\ f # fs
          /\ fs' = f
    /\ UNCHANGED <<os, args, uri, resolved, fds, reqs>>

Handler(r) ==
    \/ Call(r)
    \/ Open(r)
    \/ Pull(r)
    \/ PullError(r)
    \/ Cancel(r)
    \/ Retire(r)

Next ==
    \/ \E r \in Slots : Handler(r)
    \/ FsChange

Spec == Init /\ [][Next]_vars

----------------------------------------------------------------------------
(* Properties of the resolver (under SpecResolve).                         *)

\* p is root followed by zero or more literal names, component by component
Within(o, root, p) ==
    LET base  == Components(o, root)
        comps == Components(o, p)
    IN  /\ Len(comps) >= Len(base)
        /\ SubSeq(comps, 1, Len(base)) = base
        /\ \A i \in (Len(base) + 1)..Len(comps) : comps[i].kind = "Normal"

\* the accumulator of the specification: the path's segments scanned from
\* the left; ".." removes the last name if there is one, ".", the empty
\* segment and the root anchor are discarded, a name is appended
RECURSIVE Accumulate(_, _, _)
Accumulate(segs, k, acc) ==
    IF k > Len(segs) THEN acc
    ELSE Accumulate(segs, k + 1,
            CASE segs[k] = <<".", ".">> ->
                    IF acc = <<>> THEN acc ELSE SubSeq(acc, 1, Len(acc) - 1)
              [] segs[k] \in {<<>>, <<".">>} -> acc
              [] OTHER -> Append(acc, segs[k]))

Accumulator(o, path) == Accumulate(SplitFrom(o, path, 1, <<>>), 1, <<>>)

\* root joined with the names of acc, component by component
IsRootJoined(o, root, acc, p) ==
    Components(o, p) =
        Components(o, root) \o [i \in 1..Len(acc) |-> Comp("Normal", acc[i])]

SrvWwwEtcPasswd ==
    SrvWww \o <<"/", "e", "t", "c", "/", "p", "a", "s", "s", "w", "d">>

\* C1: for every request path the resolved path is document_root followed by
\* zero or more literal name segments: it is document_root or a lexical
\* descendant of it, and no segment after document_root is "..".
C1_ResolvedWithinRoot ==
    resolved # NotYet => Within(os, args.document_root, resolved)

\* C1 on a Unix build only
C1_ResolvedWithinRootOnUnix ==
    (os = "unix" /\ resolved # NotYet) => Within(os, args.document_root, resolved)

\* C2: resolve returns document_root joined with the accumulator of the
\* left-to-right scan of the path's segments; "/../../etc/passwd" under
\* "/srv/www" gives "/srv/www/etc/passwd", and "/a/b/../c" gives root/a/c.
C2_ResolveIsRootJoinedWithAccumulator ==
    resolved # NotYet =>
        /\ IsRootJoined(os, args.document_root, Accumulator(os, uri), resolved)
        /\ (os = "unix" /\ args.document_root = SrvWww /\ uri = ExamplePasswd)
               => resolved = SrvWwwEtcPasswd
        /\ uri = ExampleABC
               => IsRootJoined(os, args.document_root, <<<<"a">>, <<"c">>>>, resolved)

\* C2 on a Unix build only
C2_ResolveIsRootJoinedWithAccumulatorOnUnix ==
    os = "unix" => C2_ResolveIsRootJoinedWithAccumulator

\* A Unix run where ".." segments outnumber the names before them.
UnixDotDotResolved ==
    /\ os = "unix"
    /\ uri = ExamplePasswd
    /\ resolved = SrvWwwEtcPasswd

----------------------------------------------------------------------------
(* Properties of the server (under Spec).                                  *)

\* the response of q carries Body::empty()
EmptyBody(q) == q.body = <<>> /\ q.stream = "none" /\ q.fd = 0

\* request r was made in this step
Arrives(r) == reqs[r].pc = "idle" /\ reqs'[r].pc # "idle"

\* C3: a request whose method is not GET is answered 405 with an empty body,
\* whatever its path is on the filesystem; neither the directory check nor
\* an open is made for it.
C3_NotGetIs405 ==
    \A r \in Slots :
        LET q == reqs[r]
        IN  (q.pc # "idle" /\ q.method \in Methods \ {"GET"}) =>
                /\ q.pc = "done"
                /\ q.nresp = 1
                /\ q.status = MethodNotAllowed
                /\ EmptyBody(q)
                /\ q.checked = "none"
                /\ q.opens = 0

C3_Witness ==
    \E r \in Slots :
        /\ reqs[r].method = "HEAD"
        /\ reqs[r].status = MethodNotAllowed
        /\ Find(fs, os, reqs[r].path).kind = "file"

\* C4: a GET request whose resolved path is a directory when it arrives is
\* answered 403 with an empty body, the document root included; and no
\* request that found a directory is answered 200.
C4_DirectoryIs403 ==
    /\ [][\A r \in Slots :
            (/\ Arrives(r)
             /\ reqs'[r].method = "GET"
             /\ Find(fs, os, reqs'[r].path).kind = "dir")
            => /\ reqs'[r].pc = "done"
               /\ reqs'[r].nresp = 1
               /\ reqs'[r].status = Forbidden
               /\ EmptyBody(reqs'[r])]_vars
    /\ [](\A r \in Slots :
            /\ reqs[r].checked = "dir" =>
                  reqs[r].pc = "done" /\ reqs[r].status = Forbidden
            /\ reqs[r].status = Ok200 /\ reqs[r].pc # "dropped" =>
                  reqs[r].checked = "other")

C4_Witness ==
    \E r \in Slots :
        /\ reqs[r].method = "GET"
        /\ reqs[r].status = Forbidden
        /\ reqs[r].path = ResolvedTargets[os][<<"/", "a", "/", ".", ".">>]
        /\ TargetNodes[os][reqs[r].path] = <<>>

\* C5: a GET request whose path was not a directory and whose open fails,
\* for whatever reason, is answered 404 with an empty body; a file that
\* cannot be read for lack of permission yields 404 and never 403.
C5_OpenFailureIs404 ==
    /\ [][\A r \in Slots :
            (reqs[r].pc = "opening" /\ reqs'[r].pc \notin {"opening", "dropped"})
            => LET e == Find(fs, os, reqs[r].path)
               IN  /\ e.kind \in {"missing", "unreadable"} =>
                        reqs'[r].opened \in OpenErrors
                   /\ reqs'[r].opened \in OpenErrors =>
                        /\ reqs'[r].pc = "done"
                        /\ reqs'[r].nresp = 1
                        /\ reqs'[r].status = NotFound
                        /\ EmptyBody(reqs'[r])]_vars
    /\ [][\A r \in Slots :
            (Arrives(r) /\ Find(fs, os, reqs'[r].path).kind = "unreadable")
            => reqs'[r].status # Forbidden]_vars
    /\ [](\A r \in Slots :
            reqs[r].opened \in OpenErrors =>
                /\ reqs[r].status = NotFound
                /\ reqs[r].checked = "other"
                /\ EmptyBody(reqs[r]))

C5_Witness ==
    \E r, q \in Slots :
        /\ reqs[r].opened = "denied" /\ reqs[r].status = NotFound
        /\ reqs[q].opened \in {"missing", "ioerr"} /\ reqs[q].status = NotFound

\* C6: a GET request whose path is a regular file that opens is answered
\* 200; the body is made of chunks read one after the other from that file,
\* nothing is read before the consumer asks for it, and when the stream
\* reaches the end of the file the body is the file's exact content.
C6_BodyIsFileContent ==
    /\ [][\A r \in Slots :
            (reqs[r].pc = "opening" /\ reqs'[r].opened = "file")
            => LET e == Find(fs, os, reqs[r].path)
               IN  /\ e.kind = "file"
                   /\ reqs'[r].data = e.data
                   /\ reqs'[r].status = Ok200
                   /\ reqs'[r].nresp = 1
                   /\ reqs'[r].pos = 0
                   /\ reqs'[r].body = <<>>
                   /\ reqs'[r].stream = "live"]_vars
    /\ [](\A r \in Slots :
            LET q == reqs[r]
            IN  q.opened = "file" =>
                    /\ q.status = Ok200
                    /\ q.pos = Len(q.body)
                    /\ q.pos <= Len(q.data)
                    /\ q.body = SubSeq(q.data, 1, q.pos)
                    /\ q.stream \in {"live", "eof", "error"}
                    /\ q.stream = "eof" => q.body = q.data)

C6_Witness ==
    \E r \in Slots :
        /\ reqs[r].stream = "eof"
        /\ Len(reqs[r].data) > ChunkSize
        /\ reqs[r].body = reqs[r].data

\* C7: however requests and changes of the filesystem interleave, a request
\* gets at most one response, and exactly one once its handler has
\* completed; the status is 200, 403, 404 or 405; the body is non-empty only
\* with status 200.
C7_OneResponse ==
    \A r \in Slots :
        LET q == reqs[r]
        IN  /\ q.nresp <= 1
            /\ q.pc \in {"idle", "opening"} => q.nresp = 0 /\ q.status = 0
            /\ q.pc \in {"streaming", "done"} =>
                   /\ q.nresp = 1
                   /\ q.status \in {Ok200, Forbidden, NotFound, MethodNotAllowed}
            /\ q.nresp = 0 <=> q.status = 0
            /\ q.status # Ok200 => EmptyBody(q)

C7_Witness ==
    \E r, q \in Slots :
        /\ r # q
        /\ reqs[r].checked = "other" /\ reqs[r].opened = "dir"
        /\ reqs[r].status = Ok200
        /\ reqs[q].pc = "streaming" /\ reqs[q].body # <<>>

\* the descriptors the requests' streams own
Owned == {reqs[r].fd : r \in Slots} \ {0}

\* C8: the file opened for a 200 response is owned by that response's stream
\* alone, and is closed as soon as the stream has reached the end of the
\* file, a read has failed, or the connection is dropped; after that there
\* is no further read of it.
C8_HandleReleased ==
    /\ [](/\ fds = Owned
          /\ \A r, q \in Slots :
                (r # q /\ reqs[r].fd # 0) => reqs[r].fd # reqs[q].fd
          /\ \A r \in Slots :
                /\ reqs[r].fd # 0 <=> reqs[r].stream = "live"
                /\ reqs[r].stream = "live" =>
                      reqs[r].pc = "streaming" /\ reqs[r].status = Ok200)
    /\ [][\A r \in Slots :
            /\ (reqs[r].stream = "live" /\ reqs'[r].stream # "live")
               => /\ reqs'[r].stream \in {"eof", "error", "cancelled"}
                  /\ reqs[r].fd \notin fds'
            /\ reqs[r].stream \in {"eof", "error", "cancelled"}
               => reqs'[r] \in {reqs[r], Idle}]_vars

C8_Witness ==
    \E r, q \in Slots :
        /\ reqs[r].stream = "cancelled"
        /\ reqs[q].stream = "live" /\ reqs[q].pos > 0
        /\ fds = {reqs[q].fd}

\* C9: with several requests in flight, a read error of one response ends
\* that response's stream only, for good: the other requests are as they
\* were, nothing is read again for the failed one, and requests are still
\* accepted.
C9_ReadErrorIsIsolated ==
    /\ [][\A r \in Slots :
            /\ (reqs[r].stream = "live" /\ reqs'[r].stream = "error")
               => /\ \A q \in Slots \ {r} : reqs'[q] = reqs[q]
                  /\ reqs'[r].pc = "done"
                  /\ reqs'[r].status = reqs[r].status
                  /\ reqs'[r].body = reqs[r].body
                  /\ reqs'[r].pos = reqs[r].pos
                  /\ fds' = fds \ {reqs[r].fd}
            /\ reqs[r].stream = "error"
               => reqs'[r] \in {reqs[r], Idle}]_vars
    /\ []((\E r \in Slots : reqs[r].pc = "idle")
              => ENABLED (\E r \in Slots : Call(r)))

C9_Witness ==
    \E r, q \in Slots :
        /\ r # q
        /\ reqs[r].stream = "error"
        /\ reqs[q].stream = "eof"
        /\ Len(reqs[q].data) > ChunkSize
        /\ reqs[q].body = reqs[q].data

\* C10: handling requests changes neither the configuration nor the
\* filesystem; a request makes at most one open, only when it is a GET whose
\* path was found not to be a directory, never when it is answered 405 or
\* 403.
C10_NoSideEffects ==
    /\ [][/\ args' = args
          /\ os' = os
          /\ (reqs' # reqs \/ fds' # fds) => fs' = fs]_vars
    /\ [](\A r \in Slots :
            LET q == reqs[r]
            IN  /\ q.opens <= 1
                /\ (q.opens = 1 /\ q.pc # "dropped") =>
                       q.method = "GET" /\ q.checked = "other"
                /\ q.opens = 1 <=> (q.opened # "none" \/ q.stream = "cancelled")
                /\ q.status \in {MethodNotAllowed, Forbidden} => q.opens = 0)

C10_Witness ==
    \E r, q \in Slots :
        /\ reqs[r].opens = 1 /\ reqs[r].status = NotFound
        /\ reqs[q].opens = 0 /\ reqs[q].status = Forbidden

====
